---- MODULE Spec2Model ----
(***************************************************************************)
(* Model of framework-evalanche/data.py: the pipeline runner               *)
(* (pipeline_runner, pipeline_runner_dialog) and the data-selection page   *)
(* (pick_data, data_spec, preview_merge_data, configure_metrics,           *)
(* run_eval).                                                              *)
(***************************************************************************)
EXTENDS Integers, Sequences, FiniteSets, TLC

\* Largest source table, in rows.
MaxRows == 3
\* multiprocessing.cpu_count() of the host.
CpuCount == 2
\* Presses of "Run" in the pipeline dialog within one behaviour.
MaxRuns == 2

\* Cell values of the single data column of the source table.
Values == {"A", "B"}

VARIABLES
  \* ---- pipeline_runner ----
  phase,      \* position of the control thread in pipeline_runner
  source,     \* rows of the input table (external, read-only)
  cfg,        \* whether the three references handed to pipeline_runner resolve
  df,         \* add_row_id(session.table(input_tablename))
  remaining,  \* rows df.to_pandas_batches() has not yielded yet
  pandas_df,  \* loop variable: the current batch
  next_task,  \* index in pandas_df of the next row joblib dispatches
  inflight,   \* indices of pandas_df whose CALL is issued and not returned
  collected,  \* task index -> result, for the tasks of this batch that returned
  results,    \* local variable `results`: [bound, rows]
  calls,      \* ROW_ID -> number of CALLs issued for it in this run
  output,     \* rows of the output table (external, persistent)
  base,       \* Len(output) when the current run started
  err,        \* exception that left pipeline_runner, or "none"
  runs,       \* runs started
  completed,  \* runs that returned normally
  stale,      \* CALLs of a failed run's pool that are still running
  prior,      \* rows of the output table before the first run
  \* ---- the data-selection page (st.session_state and widget state) ----
  page,            \* page the app shows: "data" or "results"
  data_toggle,     \* toggle "Separate Expected & Actual"
  custom_sql,      \* key -> toggle "Custom SQL" ({key}_custom_sql)
  code_input,      \* key -> text of the SQL text area ({key}_code_input)
  columns_sel,     \* key -> whether the multiselect columns_{key} holds a column
  data,            \* key -> st.session_state["{key}_data"]
  join_column,     \* key -> st.session_state["{key}_join_column"]
  dialog,          \* open dialog: "none", "preview", "configure", "stopped"
  param_selection, \* st.session_state["param_selection"]: [set, cols]
  used,            \* data the open dialog or run_eval read
  message,         \* text of the last st.error
  metric_args      \* what metric_runner was last called with: [called, cols]

pipeVars == <<phase, source, cfg, df, remaining, pandas_df, next_task, inflight,
              collected, results, calls, output, base, err, runs, completed,
              stale, prior>>

uiVars == <<page, data_toggle, custom_sql, code_input, columns_sel, data,
            join_column, dialog, param_selection, used, message, metric_args>>

vars == <<pipeVars, uiVars>>

----------------------------------------------------------------------------
\* External collaborators of pipeline_runner

RowIds == 1..MaxRows

\* add_row_id: the table with one more column, ROW_ID, unique per row.
add_row_id(table) == [i \in 1..Len(table) |-> [ROW_ID |-> i, DATA |-> table[i]]]

\* The stored procedure: one value per argument, its content unknown.
Sproc(arg) == <<"resp", arg.ROW_ID, arg.DATA>>

\* save_eval_to_table: write mode "append".
save_eval_to_table(table, rows) == table \o rows

LegacyRow == [ROW_ID |-> 0, RESPONSE |-> <<"resp", 0, "A">>, DATA |-> "A"]

----------------------------------------------------------------------------
\* pipeline_runner

n_jobs_per_row == MaxRows
\* Parallel(n_jobs=multiprocessing.cpu_count(), backend="threading")
n_jobs == CpuCount

InvokeResultLastRow(row) ==
  [ROW_ID |-> row.ROW_ID, RESPONSE |-> Sproc(pandas_df[Len(pandas_df)])]
\* lambda row: {"ROW_ID": row["ROW_ID"], "RESPONSE": CALL sproc(row.to_dict())}
InvokeResult(row) == [ROW_ID |-> row.ROW_ID, RESPONSE |-> Sproc(row)]

Matches(r, table) == SelectSeq(table, LAMBDA s : s.ROW_ID = r.ROW_ID)

JoinRow(r, s) == [ROW_ID |-> r.ROW_ID, RESPONSE |-> r.RESPONSE, DATA |-> s.DATA]

NullRow(r) == [ROW_ID |-> r.ROW_ID, RESPONSE |-> r.RESPONSE, DATA |-> "NULL"]

\* left.join(right, on="ROW_ID", how="left")
RECURSIVE LeftJoin(_, _)
LeftJoin(left, right) ==
  IF Len(left) = 0 THEN <<>>
  ELSE LET r == Head(left)
           m == Matches(r, right)
       IN  (IF Len(m) = 0 THEN <<NullRow(r)>>
            ELSE [i \in 1..Len(m) |-> JoinRow(r, m[i])])
           \o LeftJoin(Tail(left), right)

NoResults == [bound |-> FALSE, rows |-> <<>>]

\* Every table of at most MaxRows rows.
Tables == UNION {[1..n -> Values] : n \in 0..MaxRows}

\* The state before the first run, for a source table and a prior output table
\* drawn from the given sets.
InitPipe(sources, priors) ==
  /\ phase = "IDLE"
  /\ source \in sources
  /\ cfg = [srcValid |-> TRUE, sprocValid |-> TRUE, outValid |-> TRUE]
  /\ df = <<>>
  /\ remaining = <<>>
  /\ pandas_df = <<>>
  /\ next_task = 1
  /\ inflight = {}
  /\ collected = <<>>
  /\ results = NoResults
  /\ calls = [id \in RowIds |-> 0]
  /\ prior \in priors
  /\ output = prior
  /\ base = Len(prior)
  /\ err = "none"
  /\ runs = 0
  /\ completed = 0
  /\ stale = 0

\* pipeline_runner_dialog: `if st.button("Run"): pipeline_runner(...)`.
RunPressed(srcValid, sprocValid, outValid) ==
  /\ phase \in {"IDLE", "DONE", "FAILED"}
  /\ runs < MaxRuns
  /\ runs' = runs + 1
  /\ cfg' = [srcValid |-> srcValid, sprocValid |-> sprocValid, outValid |-> outValid]
  /\ phase' = "TAGGING"
  /\ df' = <<>>
  /\ remaining' = <<>>
  /\ pandas_df' = <<>>
  /\ next_task' = 1
  /\ inflight' = {}
  /\ collected' = <<>>
  /\ results' = NoResults
  /\ calls' = [id \in RowIds |-> 0]
  /\ base' = Len(output)
  /\ err' = "none"
  /\ UNCHANGED uiVars
  /\ UNCHANGED <<source, output, completed, stale, prior>>

\* df = add_row_id(session.table(input_tablename))
Tag ==
  /\ phase = "TAGGING"
  /\ df' = add_row_id(source)
  /\ remaining' = add_row_id(source)
  /\ phase' = "FETCHING_BATCH"
  /\ UNCHANGED uiVars
  /\ UNCHANGED <<source, cfg, pandas_df, next_task, inflight, collected, results,
                 calls, output, base, err, runs, completed, stale, prior>>

\* for pandas_df in df.to_pandas_batches(): the query on a table that does not
\* resolve raises.
FetchRaises ==
  /\ phase = "FETCHING_BATCH"
  /\ ~cfg.srcValid
  /\ phase' = "FAILED"
  /\ err' = "source"
  /\ UNCHANGED uiVars
  /\ UNCHANGED <<source, cfg, df, remaining, pandas_df, next_task, inflight,
                 collected, results, calls, output, base, runs, completed, stale,
                 prior>>

\* for pandas_df in df.to_pandas_batches(): the next batch, of a size the
\* client chooses.
NextBatch(k) ==
  /\ phase = "FETCHING_BATCH"
  /\ cfg.srcValid
  /\ k \in 1..Len(remaining)
  /\ pandas_df' = SubSeq(remaining, 1, k)
  /\ remaining' = SubSeq(remaining, k + 1, Len(remaining))
  /\ next_task' = 1
  /\ collected' = <<>>
  /\ phase' = "INVOKING"
  /\ UNCHANGED uiVars
  /\ UNCHANGED <<source, cfg, df, inflight, results, calls, output, base, err,
                 runs, completed, stale, prior>>

\* The batch iterator is exhausted: control leaves the for loop.
LoopExit ==
  /\ phase = "FETCHING_BATCH"
  /\ cfg.srcValid
  /\ Len(remaining) = 0
  /\ phase' = "JOINING_AND_APPENDING"
  /\ UNCHANGED uiVars
  /\ UNCHANGED <<source, cfg, df, remaining, pandas_df, next_task, inflight,
                 collected, results, calls, output, base, err, runs, completed,
                 stale, prior>>

\* A free worker thread of the pool takes the next row and issues its CALL.
Dispatch ==
  /\ phase = "INVOKING"
  /\ next_task <= Len(pandas_df)
  /\ Cardinality(inflight) < n_jobs
  /\ inflight' = inflight \cup {next_task}
  /\ calls' = [calls EXCEPT ![pandas_df[next_task].ROW_ID] = @ + 1]
  /\ next_task' = next_task + 1
  /\ UNCHANGED uiVars
  /\ UNCHANGED <<phase, source, cfg, df, remaining, pandas_df, collected, results,
                 output, base, err, runs, completed, stale, prior>>

\* .collect_nowait().result()[0][0] returns in worker thread i.
InvocationReturns(i) ==
  /\ phase = "INVOKING"
  /\ i \in inflight
  /\ cfg.sprocValid
  /\ inflight' = inflight \ {i}
  /\ collected' = collected @@ (i :> InvokeResult(pandas_df[i]))
  /\ UNCHANGED uiVars
  /\ UNCHANGED <<phase, source, cfg, df, remaining, pandas_df, next_task, results,
                 calls, output, base, err, runs, completed, stale, prior>>

\* The CALL of task i raises: Parallel re-raises in the control thread, nothing
\* catches it; the other threads' CALLs are left running.
InvocationRaises(i) ==
  /\ phase = "INVOKING"
  /\ i \in inflight
  /\ phase' = "FAILED"
  /\ err' = "invocation"
  /\ stale' = stale + Cardinality(inflight \ {i})
  /\ inflight' = {}
  /\ UNCHANGED uiVars
  /\ UNCHANGED <<source, cfg, df, remaining, pandas_df, next_task, collected,
                 results, calls, output, base, runs, completed, prior>>

\* A CALL abandoned by a failed run returns; nobody reads its value.
DrainStale ==
  /\ stale > 0
  /\ stale' = stale - 1
  /\ UNCHANGED uiVars
  /\ UNCHANGED <<phase, source, cfg, df, remaining, pandas_df, next_task, inflight,
                 collected, results, calls, output, base, err, runs, completed,
                 prior>>

\* results = Parallel(...)(...): every task returned; the list is in input order.
ParallelReturns ==
  /\ phase = "INVOKING"
  /\ next_task > Len(pandas_df)
  /\ inflight = {}
  /\ results' = [bound |-> TRUE, rows |-> [i \in 1..Len(pandas_df) |-> collected[i]]]
  /\ phase' = "FETCHING_BATCH"
  /\ UNCHANGED uiVars
  /\ UNCHANGED <<source, cfg, df, remaining, pandas_df, next_task, inflight,
                 collected, calls, output, base, err, runs, completed, stale, prior>>

\* session.create_dataframe(results): `results` was never assigned.
JoinUnbound ==
  /\ phase = "JOINING_AND_APPENDING"
  /\ ~results.bound
  /\ phase' = "FAILED"
  /\ err' = "UnboundLocalError"
  /\ UNCHANGED uiVars
  /\ UNCHANGED <<source, cfg, df, remaining, pandas_df, next_task, inflight,
                 collected, results, calls, output, base, runs, completed, stale,
                 prior>>

\* save_eval_to_table(result, output_tablename) on a name that does not resolve.
SaveRaises ==
  /\ phase = "JOINING_AND_APPENDING"
  /\ results.bound
  /\ ~cfg.outValid
  /\ phase' = "FAILED"
  /\ err' = "save"
  /\ UNCHANGED uiVars
  /\ UNCHANGED <<source, cfg, df, remaining, pandas_df, next_task, inflight,
                 collected, results, calls, output, base, runs, completed, stale,
                 prior>>

\* result = session.create_dataframe(results).join(df, on="ROW_ID", how="left")
\* save_eval_to_table(result, output_tablename)
JoinAndSave ==
  /\ phase = "JOINING_AND_APPENDING"
  /\ results.bound
  /\ cfg.outValid
  /\ output' = save_eval_to_table(output, LeftJoin(results.rows, df))
  /\ phase' = "DONE"
  /\ completed' = completed + 1
  /\ UNCHANGED uiVars
  /\ UNCHANGED <<source, cfg, df, remaining, pandas_df, next_task, inflight,
                 collected, results, calls, base, err, runs, stale, prior>>

----------------------------------------------------------------------------
\* The data-selection page

Keys == {"single_source", "ground", "inference"}

\* Texts of the SQL text area: empty, a query, a query session.sql rejects.
CodeTexts == {"", "SELECT", "BAD"}

\* Columns of any selected dataframe; "None" is Python's None throughout.
Columns == {"c1", "c2"}

\* selected_metrics: one metric; Params are the keys of its `required`.
Params == {"question", "answer"}

\* pick_data: the data_spec calls a run makes, by the toggle.
Visible(toggle) == IF toggle THEN {"ground", "inference"} ELSE {"single_source"}

\* run_sql
run_sql(sql) ==
  IF sql = "" THEN "None"
  ELSE IF sql = "BAD" THEN "None"
  ELSE "sql_df"

\* source_data_selector: `if selected_columns: return session.table(...).select(...)`
source_data_selector(selected) == IF selected THEN "table_df" ELSE "None"

\* data_spec: the value st.session_state[f"{key_name}_data"] holds after it ran.
data_spec(k, cs, code, sel, old) ==
  IF cs[k]
  THEN IF code[k] # "" THEN run_sql(code[k]) ELSE old[k]
  ELSE source_data_selector(sel[k])

\* One run of pick_data over the widget state: only the visible keys' data_spec runs.
Render(toggle, cs, code, sel, old) ==
  [k \in Keys |-> IF k \in Visible(toggle) THEN data_spec(k, cs, code, sel, old)
                  ELSE old[k]]

\* The st.error a run of the page leaves on screen: run_sql's, for a visible
\* data_spec whose query session.sql rejects.
PageMessage(toggle, cs, code) ==
  IF \E k \in Visible(toggle) : cs[k] /\ code[k] = "BAD" THEN "Error: sql" ELSE ""

\* The selectbox {key}_join_column: rendered only for a visible key with
\* join_key, its options the data's columns.
JoinAfter(toggle, newdata, jc) ==
  [k \in Keys |-> IF k \in Visible(toggle) /\ toggle /\ newdata[k] # "None"
                  THEN jc[k] ELSE "None"]

\* validate_data_inputs: the st.error it stops with, or "" when it returns.
validate_data_inputs ==
  IF data["inference"] = "None" THEN "No inference data selected."
  ELSE IF data["ground"] = "None" THEN "No ground truth data selected."
  ELSE IF join_column["inference"] = "None" THEN "No inference join column selected."
  ELSE IF join_column["ground"] = "None" THEN "No ground truth join column selected."
  ELSE ""

\* `if st.session_state.get("single_source_data", None) is None:` join, else single
SourceRead == IF data["single_source"] = "None" THEN "join" ELSE "single"

NoParams == [set |-> FALSE, cols |-> [p \in Params |-> "None"]]

\* run_eval: `if st.session_state.get("param_selection", None) is None:`
ParamsReady(ps) == ps.set

InitUI ==
  /\ page = "data"
  /\ data_toggle = FALSE
  /\ custom_sql = [k \in Keys |-> FALSE]
  /\ code_input = [k \in Keys |-> ""]
  /\ columns_sel = [k \in Keys |-> FALSE]
  /\ data = [k \in Keys |-> "None"]
  /\ join_column = [k \in Keys |-> "None"]
  /\ dialog = "none"
  /\ param_selection = NoParams
  /\ used = "none"
  /\ message = ""
  /\ metric_args = [called |-> FALSE, cols |-> [p \in Params |-> "None"]]

OnPage == page = "data" /\ dialog = "none"

\* The widgets of key k at their defaults (a widget that was not rendered in a
\* run loses its state).
Fresh(f, ks, v) == [k \in Keys |-> IF k \in ks THEN v ELSE f[k]]

\* The user flips "Separate Expected & Actual"; the page reruns.
Toggle ==
  /\ OnPage
  /\ data_toggle' = ~data_toggle
  /\ custom_sql' = [k \in Keys |-> FALSE]
  /\ code_input' = [k \in Keys |-> ""]
  /\ columns_sel' = [k \in Keys |-> FALSE]
  /\ data' = Render(data_toggle', custom_sql', code_input', columns_sel', data)
  /\ join_column' = JoinAfter(data_toggle', data', join_column)
  /\ message' = PageMessage(data_toggle', custom_sql', code_input')
  /\ UNCHANGED <<page, dialog, param_selection, used, metric_args>>
  /\ UNCHANGED pipeVars

\* The user flips "Custom SQL" of a visible data_spec; the page reruns.
SetCustomSql(k) ==
  /\ OnPage
  /\ k \in Visible(data_toggle)
  /\ custom_sql' = [custom_sql EXCEPT ![k] = ~@]
  /\ code_input' = Fresh(code_input, {k}, "")
  /\ columns_sel' = Fresh(columns_sel, {k}, FALSE)
  /\ data' = Render(data_toggle, custom_sql', code_input', columns_sel', data)
  /\ join_column' = JoinAfter(data_toggle, data', join_column)
  /\ message' = PageMessage(data_toggle, custom_sql', code_input')
  /\ UNCHANGED <<page, data_toggle, dialog, param_selection, used, metric_args>>
  /\ UNCHANGED pipeVars

\* The user edits the SQL text area of a visible data_spec; the page reruns.
EnterCode(k, text) ==
  /\ OnPage
  /\ k \in Visible(data_toggle)
  /\ custom_sql[k]
  /\ text # code_input[k]
  /\ code_input' = [code_input EXCEPT ![k] = text]
  /\ data' = Render(data_toggle, custom_sql, code_input', columns_sel, data)
  /\ join_column' = JoinAfter(data_toggle, data', join_column)
  /\ message' = PageMessage(data_toggle, custom_sql, code_input')
  /\ UNCHANGED <<page, data_toggle, custom_sql, columns_sel, dialog,
                 param_selection, used, metric_args>>
  /\ UNCHANGED pipeVars

\* The user changes the "Select Columns" multiselect; the page reruns.
SelectColumns(k, selected) ==
  /\ OnPage
  /\ k \in Visible(data_toggle)
  /\ ~custom_sql[k]
  /\ selected # columns_sel[k]
  /\ columns_sel' = [columns_sel EXCEPT ![k] = selected]
  /\ data' = Render(data_toggle, custom_sql, code_input, columns_sel', data)
  /\ join_column' = JoinAfter(data_toggle, data', join_column)
  /\ message' = PageMessage(data_toggle, custom_sql, code_input)
  /\ UNCHANGED <<page, data_toggle, custom_sql, code_input, dialog,
                 param_selection, used, metric_args>>
  /\ UNCHANGED pipeVars

\* The user picks a join column; the page reruns.
SelectJoinColumn(k, c) ==
  /\ OnPage
  /\ data_toggle
  /\ k \in Visible(data_toggle)
  /\ data[k] # "None"
  /\ c # join_column[k]
  /\ join_column' = [join_column EXCEPT ![k] = c]
  /\ message' = PageMessage(data_toggle, custom_sql, code_input)
  /\ UNCHANGED <<page, data_toggle, custom_sql, code_input, columns_sel, data,
                 dialog, param_selection, used, metric_args>>
  /\ UNCHANGED pipeVars

\* "Preview": preview_merge_data.
PressPreview ==
  /\ OnPage
  /\ dialog' = "preview"
  /\ IF SourceRead = "join" /\ validate_data_inputs # ""
     THEN /\ message' = validate_data_inputs
          /\ used' = "stopped"
     ELSE /\ message' = PageMessage(data_toggle, custom_sql, code_input)
          /\ used' = SourceRead
  /\ UNCHANGED <<page, data_toggle, custom_sql, code_input, columns_sel, data,
                 join_column, param_selection, metric_args>>
  /\ UNCHANGED pipeVars

\* "Configure": configure_metrics up to its "Run" button; every selectbox of
\* the dialog starts at index=None.
PressConfigure ==
  /\ OnPage
  /\ IF SourceRead = "join" /\ validate_data_inputs # ""
     THEN /\ dialog' = "stopped"
          /\ message' = validate_data_inputs
          /\ used' = "stopped"
          /\ UNCHANGED param_selection
     ELSE /\ dialog' = "configure"
          /\ used' = SourceRead
          /\ param_selection' = [set |-> TRUE, cols |-> [p \in Params |-> "None"]]
          /\ message' = PageMessage(data_toggle, custom_sql, code_input)
  /\ UNCHANGED <<page, data_toggle, custom_sql, code_input, columns_sel, data,
                 join_column, metric_args>>
  /\ UNCHANGED pipeVars

\* The user picks a column for a parameter; the dialog reruns and stores
\* param_selection.
SelectParam(p, c) ==
  /\ page = "data"
  /\ dialog = "configure"
  /\ c # param_selection.cols[p]
  /\ param_selection' = [param_selection EXCEPT !.cols[p] = c]
  /\ UNCHANGED <<page, data_toggle, custom_sql, code_input, columns_sel, data,
                 join_column, dialog, used, message, metric_args>>
  /\ UNCHANGED pipeVars

\* "Run" of the configure dialog: run_eval. metric_runner returns (returned)
\* or raises, and then the page is not switched.
PressRunEval(returned) ==
  /\ page = "data"
  /\ dialog = "configure"
  /\ IF ~ParamsReady(param_selection)
     THEN /\ message' = "Please select columns for all required parameters."
          /\ UNCHANGED <<page, used, dialog, metric_args>>
     ELSE /\ used' = SourceRead
          /\ metric_args' = [called |-> TRUE, cols |-> param_selection.cols]
          /\ page' = IF returned THEN "results" ELSE "data"
          /\ dialog' = IF returned THEN "none" ELSE "configure"
          /\ UNCHANGED message
  /\ UNCHANGED <<data_toggle, custom_sql, code_input, columns_sel, data,
                 join_column, param_selection>>
  /\ UNCHANGED pipeVars

\* The user dismisses the open dialog.
CloseDialog ==
  /\ page = "data"
  /\ dialog # "none"
  /\ dialog' = "none"
  /\ used' = "none"
  /\ UNCHANGED <<page, data_toggle, custom_sql, code_input, columns_sel, data,
                 join_column, param_selection, message, metric_args>>
  /\ UNCHANGED pipeVars

NextUI ==
  \/ Toggle
  \/ \E k \in Keys : SetCustomSql(k)
  \/ \E k \in Keys, text \in CodeTexts : EnterCode(k, text)
  \/ \E k \in Keys, selected \in BOOLEAN : SelectColumns(k, selected)
  \/ \E k \in Keys, c \in Columns \cup {"None"} : SelectJoinColumn(k, c)
  \/ PressPreview
  \/ PressConfigure
  \/ \E p \in Params, c \in Columns \cup {"None"} : SelectParam(p, c)
  \/ \E returned \in BOOLEAN : PressRunEval(returned)
  \/ CloseDialog

----------------------------------------------------------------------------
Next ==
  \/ \E s, p, o \in BOOLEAN : RunPressed(s, p, o)
  \/ Tag
  \/ FetchRaises
  \/ \E k \in 1..MaxRows : NextBatch(k)
  \/ LoopExit
  \/ Dispatch
  \/ \E i \in 1..MaxRows : InvocationReturns(i)
  \/ \E i \in 1..MaxRows : InvocationRaises(i)
  \/ DrainStale
  \/ ParallelReturns
  \/ JoinUnbound
  \/ SaveRaises
  \/ JoinAndSave

Init == InitPipe(Tables, {<<>>, <<LegacyRow>>}) /\ InitUI

InitPage == InitPipe({<<>>}, {<<>>}) /\ InitUI

\* The pipeline runner, over every source table and prior output table.
Spec == Init /\ [][Next]_vars

\* The data-selection page, with no pipeline run in progress.
SpecUI == InitPage /\ [][NextUI]_vars

----------------------------------------------------------------------------
\* Properties

Range(s) == {s[i] : i \in 1..Len(s)}

IsPrefix(s, t) == Len(s) <= Len(t) /\ SubSeq(t, 1, Len(s)) = s

\* Rows the current run appended to the output table.
Appended == SubSeq(output, base + 1, Len(output))

\* The Output Record of a tagged source row: its columns and its own RESPONSE.
OutputRecord(row) == [ROW_ID |-> row.ROW_ID, RESPONSE |-> Sproc(row), DATA |-> row.DATA]

\* Rows of the batches fetched before the current one.
EarlierBatches == SubSeq(df, 1, Len(df) - Len(remaining) - Len(pandas_df))

ConfigValid == cfg.srcValid /\ cfg.sprocValid /\ cfg.outValid

NoCallIssued == \A id \in RowIds : calls[id] = 0

\* C1: a run that ends without error has appended exactly one Output Record
\* per source row, each with that row's columns and its own RESPONSE, whatever
\* the number of batches.
C1_EveryRowAppended ==
  phase = "DONE" =>
    /\ Len(Appended) = Len(source)
    /\ Range(Appended) = {OutputRecord(df[i]) : i \in 1..Len(df)}

\* C2: while the rows of a batch are being invoked, every CALL in flight
\* belongs to that batch and the joined rows of every earlier batch are already
\* in the output table (batch k is joined and appended before batch k+1 is
\* fetched).
C2_BatchAppendedBeforeNextFetch ==
  (phase = "INVOKING" /\ ConfigValid) =>
    /\ inflight \subseteq 1..Len(pandas_df)
    /\ \A i \in 1..Len(EarlierBatches) :
         OutputRecord(EarlierBatches[i]) \in Range(Appended)

\* C3: when a CALL of batch k raises in a run with valid references, the run
\* is FAILED, no row of batch k is
\* in the output table and the rows of every batch before k are.
C3_FailureKeepsEarlierBatches ==
  (err = "invocation" /\ ConfigValid) =>
    /\ phase = "FAILED"
    /\ \A i \in 1..Len(pandas_df) : OutputRecord(pandas_df[i]) \notin Range(Appended)
    /\ \A i \in 1..Len(EarlierBatches) :
         OutputRecord(EarlierBatches[i]) \in Range(Appended)

\* C4: over an empty source table a run with valid references issues no CALL,
\* appends nothing and never ends in an error.
C4_EmptySourceCompletes ==
  (source = <<>> /\ ConfigValid) =>
    /\ phase # "FAILED"
    /\ err = "none"
    /\ NoCallIssued
    /\ Appended = <<>>

\* C5: no step removes or changes a row of the output table, and once two runs
\* over the N-row source have completed the table holds its prior rows plus 2N
\* Output Records.
C5_AppendOnlyAndDuplicating ==
  [][ /\ IsPrefix(output, output')
      /\ completed' = 2 => Len(output') = Len(prior) + 2 * Len(source) ]_vars

ResultsOfBatch ==
  results.bound /\ phase \in {"FETCHING_BATCH", "JOINING_AND_APPENDING", "DONE"}

\* C7: no row is ever CALLed twice, and for a batch whose invocations all
\* succeeded each row was CALLed exactly once and the collected results are in
\* bijection with the batch's rows by ROW_ID, each result holding the response
\* to its own row's CALL.
C7_ResultsBijection ==
  /\ \A id \in RowIds : calls[id] <= 1
  /\ ResultsOfBatch =>
       /\ Len(results.rows) = Len(pandas_df)
       /\ \A j \in 1..Len(pandas_df) : calls[pandas_df[j].ROW_ID] = 1
       /\ \A j \in 1..Len(pandas_df) :
            Cardinality({i \in 1..Len(results.rows) :
                           results.rows[i].ROW_ID = pandas_df[j].ROW_ID}) = 1
       /\ \A i \in 1..Len(results.rows) :
            /\ Cardinality({j \in 1..Len(pandas_df) :
                              pandas_df[j].ROW_ID = results.rows[i].ROW_ID}) = 1
            /\ \A j \in 1..Len(pandas_df) :
                 pandas_df[j].ROW_ID = results.rows[i].ROW_ID =>
                   results.rows[i].RESPONSE = Sproc(pandas_df[j])

\* A second batch of several rows, two of them with equal column values,
\* whose invocations all returned.
C7_Witness ==
  /\ ResultsOfBatch
  /\ Len(EarlierBatches) > 0
  /\ Len(pandas_df) >= 2
  /\ pandas_df[1].DATA = pandas_df[2].DATA
  /\ Len(results.rows) = Len(pandas_df)

\* C8: a run started with a reference that does not resolve issues no CALL and
\* appends nothing.
C8_InvalidConfigIssuesNothing ==
  (phase # "IDLE" /\ ~ConfigValid) => (NoCallIssued /\ Appended = <<>>)

\* C9: metric_runner is called only with a column assigned to every required
\* parameter of every selected metric.
C9_RunOnlyWhenAllAssigned ==
  metric_args.called => \A p \in Params : metric_args.cols[p] # "None"

\* C10: while "Separate Expected & Actual" is on, Preview, Configure and
\* run_eval never read single_source_data.
C10_ToggleOnUsesJoin == data_toggle => used # "single"

====
